---- MODULE Spec2Model ----
(***************************************************************************)
(* Model of the document parser service (src/index.js): the                *)
(* POST /parse-document pipeline (multer upload, extension dispatch, text  *)
(* extraction, artifact write, deletion of the uploaded file) run by       *)
(* several concurrent requests over the shared uploads/ and temp/          *)
(* directories, and the GET /test probe.                                   *)
(*                                                                         *)
(* Strings are sequences of one-character strings, so that path.extname,   *)
(* path.basename and toLowerCase are computed character by character.      *)
(* Node runs each callback to its next await without interruption: every   *)
(* action below is one such run.                                           *)
(***************************************************************************)
EXTENDS Integers, Sequences, FiniteSets, TLC

VARIABLES now, uploads, temp, req, wlog, probe, doc, preview

vars == <<now, uploads, temp, req, wlog, probe, doc, preview>>

\* The variables of the preview computation taken alone (SpecPreview).
pure == <<doc, preview>>

(***************************************************************************)
(* Bounds.                                                                 *)
(***************************************************************************)
NReq == 2
MaxClock == 1

Reqs == 1..NReq

(***************************************************************************)
(* Inputs: original filenames and declared media types.  Names and         *)
(* MimeTypes are the inputs of the concurrent specification Spec; AllNames *)
(* and AllMimeTypes are the wider inputs of SpecFull.                      *)
(***************************************************************************)
Names ==
  { <<"r", ".", "p", "d", "f">>,
    <<"r", ".", "D", "O", "C">>,
    <<"r", ".", "t", "x", "t">> }

AllNames ==
  Names \cup
  { <<"r", ".", "P", "D", "F">>,
    <<"r", ".", "d", "o", "c">>,
    <<"r", ".", "d", "o", "c", "x">>,
    <<"a", ".", "D", "o", "c", "x">>,
    <<"r", ".", "v", "2", ".", "p", "d", "f">>,
    <<".", "p", "d", "f">>,
    <<"r">> }

MimePdf == "application/pdf"
MimeDocx == "application/vnd.openxmlformats-officedocument.wordprocessingml.document"
MimeDoc == "application/msword"
MimeText == "text/plain"

MimePng == "image/png"

MimeTypes == {MimePdf, MimeText}

AllMimeTypes == {MimePdf, MimeDocx, MimeDoc, MimeText, MimePng}

(***************************************************************************)
(* String helpers.                                                         *)
(***************************************************************************)
Upper == <<"A", "B", "C", "D", "E", "F", "G", "H", "I", "J", "K", "L", "M",
           "N", "O", "P", "Q", "R", "S", "T", "U", "V", "W", "X", "Y", "Z">>
Lower == <<"a", "b", "c", "d", "e", "f", "g", "h", "i", "j", "k", "l", "m",
           "n", "o", "p", "q", "r", "s", "t", "u", "v", "w", "x", "y", "z">>

LowerOf == [c \in {Upper[i] : i \in 1..26} |-> Lower[CHOOSE i \in 1..26 : Upper[i] = c]]

toLowerChar(c) == IF c \in DOMAIN LowerOf THEN LowerOf[c] ELSE c

toLowerCase(s) == [i \in 1..Len(s) |-> toLowerChar(s[i])]

Digit == <<"0", "1", "2", "3", "4", "5", "6", "7", "8", "9">>

RECURSIVE toDecimal(_)
toDecimal(n) ==
  IF n < 10 THEN <<Digit[n + 1]>>
  ELSE toDecimal(n \div 10) \o <<Digit[(n % 10) + 1]>>

EndsWith(s, suffix) ==
  /\ Len(suffix) <= Len(s)
  /\ SubSeq(s, Len(s) - Len(suffix) + 1, Len(s)) = suffix

\* path.extname for a name without directory separators: from the last dot
\* to the end; empty when there is no dot, when the only dot is the first
\* character, and for "..".
extname(p) ==
  LET dots == {i \in 1..Len(p) : p[i] = "."}
      startDot == CHOOSE i \in dots : \A j \in dots : j <= i
  IN IF dots = {} THEN <<>>
     ELSE IF startDot = 1 THEN <<>>
     ELSE IF p[1] = "." /\ startDot = Len(p) /\ startDot = 2 THEN <<>>
     ELSE SubSeq(p, startDot, Len(p))

\* path.basename(p, ext) for a name without directory separators: the
\* suffix is removed only when it matches the end of p character for
\* character.
basename(p, ext) ==
  IF Len(ext) > 0 /\ Len(ext) <= Len(p)
    THEN IF ext = p THEN <<>>
         ELSE IF EndsWith(p, ext) THEN SubSeq(p, 1, Len(p) - Len(ext))
         ELSE p
    ELSE p

ExtPdf == <<".", "p", "d", "f">>
ExtDocx == <<".", "d", "o", "c", "x">>
ExtDoc == <<".", "d", "o", "c">>
ExtractedSuffix == <<"-", "e", "x", "t", "r", "a", "c", "t", "e", "d", ".", "t", "x", "t">>

(***************************************************************************)
(* The upload configuration.                                               *)
(***************************************************************************)
\* storage.filename: `${Date.now()}-${file.originalname}`
filename(ts, originalname) == toDecimal(ts) \o <<"-">> \o originalname

\* The message of the fileFilter's error.
FilterMessage == "Unsupported file format. Only PDF and DOCX files are allowed."

\* A variant of fileFilter that accepts every declared media type.
fileFilterAny(mimetype) == TRUE

fileFilter(mimetype) ==
  \/ mimetype = MimePdf
  \/ mimetype = MimeDocx
  \/ mimetype = MimeDoc

\* A variant of fileExt without toLowerCase().
fileExtCaseSensitive(originalname) == extname(originalname)

\* const fileExt = path.extname(req.file.originalname).toLowerCase()
fileExt(originalname) == toLowerCase(extname(originalname))

\* A variant of dispatch that does not know the .doc extension.
dispatchNoDoc(originalname) ==
  IF fileExt(originalname) = ExtPdf THEN "pdf"
  ELSE IF fileExt(originalname) = ExtDocx THEN "word"
  ELSE "none"

\* Which extractor the handler calls for an original filename.
dispatch(originalname) ==
  IF fileExt(originalname) = ExtPdf THEN "pdf"
  ELSE IF fileExt(originalname) = ExtDocx \/ fileExt(originalname) = ExtDoc THEN "word"
  ELSE "none"

\* String.prototype.substring(start, end): both indices are clamped to the
\* length of the string, and swapped when start exceeds end.
substring(s, start, end) ==
  LET clamp(i) == IF i < 0 THEN 0 ELSE IF i > Len(s) THEN Len(s) ELSE i
      a == clamp(start)
      b == clamp(end)
  IN IF a <= b THEN SubSeq(s, a + 1, b) ELSE SubSeq(s, b + 1, a)

PreviewLen == 200

Ellipsis == <<".", ".", ".">>

\* A variant of textPreview that appends the dots only to a truncated text.
textPreviewDotsIfCut(text) ==
  IF Len(text) > PreviewLen
    THEN substring(text, 0, PreviewLen) \o Ellipsis
    ELSE text

\* textPreview: text.substring(0, 200) + '...'
textPreview(text) == substring(text, 0, PreviewLen) \o Ellipsis

\* The file name in temp/ of the extracted text.
tempFilePath(originalname) ==
  basename(originalname, fileExt(originalname)) \o ExtractedSuffix

(***************************************************************************)
(* Files.  uploads and temp are functions from the names of the files that *)
(* exist to their contents.  The content of an uploaded file is the id of  *)
(* the request whose body was written to it last; the text an extractor    *)
(* returns for it is identified by the same id.  wlog lists, in order, the *)
(* requests that wrote an artifact.                                        *)
(***************************************************************************)
Put(f, k, v) == [x \in DOMAIN f \cup {k} |-> IF x = k THEN v ELSE f[x]]
Remove(f, k) == [x \in DOMAIN f \ {k} |-> f[x]]

\* A variant of writeArtifact that empties temp/ before it writes.
writeArtifactFresh(path, text) == Put(<< >>, path, text)

\* A variant of writeArtifact that leaves an existing file as it is.
writeArtifactIfAbsent(path, text) ==
  IF path \in DOMAIN temp THEN temp ELSE Put(temp, path, text)

\* fs.writeFileSync(tempFilePath, text): creates or overwrites the file.
writeArtifact(path, text) == Put(temp, path, text)

\* The content of the file at a path of temp/ (0: there is no such file).
fileAt(path) == IF path \in DOMAIN temp THEN temp[path] ELSE 0

\* fs.unlink: fails when the file does not exist, and may fail otherwise.
unlinkSucceeds(p, ok) == ok /\ p \in DOMAIN uploads
\* A variant of unlink that reports success without removing the file.
unlinkKeeps(p, ok) == uploads

unlink(p, ok) == IF unlinkSucceeds(p, ok) THEN Remove(uploads, p) ELSE uploads

(***************************************************************************)
(* Requests.                                                               *)
(***************************************************************************)
NoName == <<>>

Idle ==
  [ pc |-> "idle", originalname |-> NoName, mimetype |-> "", ts |-> -1, path |-> NoName,
    buf |-> 0, text |-> 0, error |-> "", status |-> 0, stored |-> FALSE,
    invoked |-> "none", artifact |-> NoName, delAttempts |-> 0,
    delOk |-> FALSE, responses |-> 0, seen |-> 0 ]

Respond(q, code) ==
  [q EXCEPT !.pc = "done", !.status = code, !.responses = @ + 1]

\* A variant of CallDelete that does not await the deletion of the try
\* block: the 200 response is sent while the unlink is pending.
CallDeleteNoAwait(q, next) ==
  IF next = "deleting"
    THEN Respond([q EXCEPT !.delAttempts = @ + 1], 200)
    ELSE [q EXCEPT !.pc = next, !.delAttempts = @ + 1]

\* deleteFile(path) is called: the unlink is pending.
CallDelete(q, next) == [q EXCEPT !.pc = next, !.delAttempts = @ + 1]

\* A variant of Catch that answers 500 without calling deleteFile.
CatchNoCleanup(q, msg) == Respond([q EXCEPT !.error = msg], 500)

\* The catch block of the handler: req.file.path is set, so deleteFile is
\* called and the 500 response waits for it.
Catch(q, msg) == CallDelete([q EXCEPT !.error = msg], "cleanup")

\* The handler's try block up to its first await, entered by the upload
\* callback with req.file set: dispatch on the extension.  parsePdf reads
\* the file at once (readFileSync) and awaits pdf(); parseDocx hands the
\* path to mammoth, which reads it later; any other extension throws.
Dispatch(q) ==
  IF dispatch(q.originalname) = "pdf"
    THEN IF q.path \in DOMAIN uploads
           THEN [q EXCEPT !.pc = "extracting", !.invoked = "pdf", !.buf = uploads[q.path]]
           ELSE Catch([q EXCEPT !.invoked = "pdf"], "ENOENT")
  ELSE IF dispatch(q.originalname) = "word"
    THEN [q EXCEPT !.pc = "extracting", !.invoked = "word"]
  ELSE Catch(q, "Unsupported file format")

\* A variant of UploadError that does not return after reporting the error.
UploadErrorFallsThrough(q, msg) ==
  Dispatch([q EXCEPT !.error = msg, !.status = 400, !.responses = @ + 1])

\* The upload callback with an error: 400 and the error's message.
UploadError(q, msg) == Respond([q EXCEPT !.error = msg], 400)

\* The upload callback without req.file.
NoFile(q) == Respond([q EXCEPT !.error = "No file uploaded"], 400)

\* The last answer to GET /test, before any probe was made.
NoReply == [code |-> 0, fields |-> {}]

Init ==
  /\ now = 0
  /\ uploads = << >>
  /\ temp = << >>
  /\ req = [r \in Reqs |-> Idle]
  /\ wlog = << >>
  /\ probe = NoReply
  /\ doc = << >>
  /\ preview = << >>

\* Date.now() advances.  Only the milliseconds in which some upload was
\* named are told apart: the clock moves on once its value has been used.
Tick ==
  /\ now < MaxClock
  /\ \E r \in Reqs : req[r].ts = now
  /\ now' = now + 1
  /\ UNCHANGED <<uploads, temp, req, wlog, probe, pure>>

\* A variant of testReply whose body has no "status" field.
testReplyPlain == [code |-> 200, fields |-> {"message"}]

\* res.status(200).json({status: ..., message: ...}): the status code and
\* the names of the body's fields.
testReply == [code |-> 200, fields |-> {"status", "message"}]

\* GET /test: the handler reads no state and touches no file.
Test ==
  /\ probe' = testReply
  /\ UNCHANGED <<now, uploads, temp, req, wlog, pure>>

\* multer starts on a request (requests are numbered in their order of
\* arrival): no file in the `document` field, a file the fileFilter rejects,
\* or a file that storage.filename names and that multer starts to write
\* under uploads/.
Receive(r, names, mimes) ==
  /\ req[r].pc = "idle"
  /\ \A q \in Reqs : q < r => req[q].pc # "idle"
  /\ \E hasFile \in BOOLEAN, name \in names, mime \in mimes :
       IF ~hasFile
         THEN /\ name = CHOOSE n \in names : TRUE
              /\ mime = CHOOSE m \in mimes : TRUE
              /\ req' = [req EXCEPT ![r] = NoFile(@)]
              /\ UNCHANGED uploads
       ELSE IF ~fileFilter(mime)
         THEN /\ name = CHOOSE n \in names : TRUE
              /\ req' = [req EXCEPT ![r] = UploadError([@ EXCEPT !.mimetype = mime], FilterMessage)]
              /\ UNCHANGED uploads
       ELSE /\ req' = [req EXCEPT ![r] =
                   [@ EXCEPT !.pc = "uploading", !.originalname = name, !.mimetype = mime,
                             !.ts = now, !.path = filename(now, name), !.stored = TRUE]]
            /\ uploads' = Put(uploads, filename(now, name), r)
  /\ UNCHANGED <<now, temp, wlog, probe, pure>>

\* multer ends the upload and calls the handler's callback: the file is
\* complete; or it passed limits.fileSize, and multer removes what it wrote
\* (an unlink whose failure it does not report) and passes the error; or
\* writing it failed, and multer passes the error, leaving what was written.
UploadDone(r) ==
  /\ req[r].pc = "uploading"
  /\ \E outcome \in {"ok", "limit", "io"}, ok \in BOOLEAN :
       \/ /\ outcome = "ok"
          /\ ok
          /\ req' = [req EXCEPT ![r] = Dispatch(@)]
          /\ UNCHANGED uploads
       \/ /\ outcome = "limit"
          /\ uploads' = unlink(req[r].path, ok)
          /\ req' = [req EXCEPT ![r] =
               UploadError([@ EXCEPT !.delOk = unlinkSucceeds(req[r].path, ok)], "File too large")]
       \/ /\ outcome = "io"
          /\ ok
          /\ req' = [req EXCEPT ![r] = UploadError(@, "ENOSPC")]
          /\ UNCHANGED uploads
  /\ UNCHANGED <<now, temp, wlog, probe, pure>>

\* The extractor settles.  On text: the rest of the try block up to
\* `await deleteFile(filePath)`, that is the writeFileSync of the artifact
\* (which may throw) and the call of deleteFile.  On failure: the catch block.
ExtractDone(r) ==
  /\ req[r].pc = "extracting"
  /\ \E parsed \in BOOLEAN, written \in BOOLEAN :
       LET q == req[r]
           present == q.invoked = "pdf" \/ q.path \in DOMAIN uploads
           body == IF q.invoked = "pdf" THEN q.buf ELSE uploads[q.path]
       IN IF ~present
            THEN /\ parsed /\ written
                 /\ req' = [req EXCEPT ![r] = Catch(@, "ENOENT")]
                 /\ UNCHANGED <<temp, wlog>>
          ELSE IF ~parsed
            THEN /\ written
                 /\ req' = [req EXCEPT ![r] = Catch(@, "extract")]
                 /\ UNCHANGED <<temp, wlog>>
          ELSE IF ~written
            THEN /\ req' = [req EXCEPT ![r] = Catch([@ EXCEPT !.text = body], "write")]
                 /\ UNCHANGED <<temp, wlog>>
          ELSE /\ req' = [req EXCEPT ![r] =
                      CallDelete([@ EXCEPT !.text = body,
                                           !.artifact = tempFilePath(q.originalname)], "deleting")]
               /\ temp' = writeArtifact(tempFilePath(q.originalname), body)
               /\ wlog' = Append(wlog, r)
  /\ UNCHANGED <<now, uploads, probe, pure>>

\* `await deleteFile(filePath)` of the try block settles: resolved, the 200
\* response is sent; rejected, the catch block runs and calls deleteFile again.
DeleteDone(r) ==
  /\ req[r].pc = "deleting"
  /\ \E ok \in BOOLEAN :
       /\ uploads' = unlink(req[r].path, ok)
       /\ req' = [req EXCEPT ![r] =
            IF unlinkSucceeds(@.path, ok)
              THEN Respond([@ EXCEPT !.delOk = TRUE, !.seen = fileAt(req[r].artifact)], 200)
              ELSE Catch(@, "unlink")]
  /\ UNCHANGED <<now, temp, wlog, probe, pure>>

\* A variant of CleanupDone without the inner try/catch: a rejected
\* deleteFile leaves the handler before the 500 response is sent.
CleanupDoneUnguarded(r) ==
  /\ req[r].pc = "cleanup"
  /\ \E ok \in BOOLEAN :
       /\ uploads' = unlink(req[r].path, ok)
       /\ req' = [req EXCEPT ![r] =
            IF unlinkSucceeds(req[r].path, ok)
              THEN Respond([@ EXCEPT !.delOk = TRUE], 500)
              ELSE [@ EXCEPT !.pc = "abandoned"]]
  /\ UNCHANGED <<now, temp, wlog, probe, pure>>

\* `await deleteFile(req.file.path)` of the catch block settles: its
\* rejection is logged only, and the 500 response is sent.
CleanupDone(r) ==
  /\ req[r].pc = "cleanup"
  /\ \E ok \in BOOLEAN :
       /\ uploads' = unlink(req[r].path, ok)
       /\ req' = [req EXCEPT ![r] =
            Respond([@ EXCEPT !.delOk = unlinkSucceeds(req[r].path, ok)], 500)]
  /\ UNCHANGED <<now, temp, wlog, probe, pure>>

Step(names, mimes) ==
  \/ Tick
  \/ Test
  \/ \E r \in Reqs : Receive(r, names, mimes)
  \/ \E r \in Reqs : UploadDone(r)
  \/ \E r \in Reqs : ExtractDone(r)
  \/ \E r \in Reqs : DeleteDone(r)
  \/ \E r \in Reqs : CleanupDone(r)

Next == Step(Names, MimeTypes)

Spec == Init /\ [][Next]_vars

\* Every pending callback of a request is eventually called: multer ends
\* the upload, the extractor settles, and each fs.unlink calls back.
Fairness ==
  \A r \in Reqs :
    /\ WF_vars(UploadDone(r))
    /\ WF_vars(ExtractDone(r))
    /\ WF_vars(DeleteDone(r))
    /\ WF_vars(CleanupDone(r))

SpecFair == Spec /\ Fairness

\* The same requests over the wider inputs.
NextFull == Step(AllNames, AllMimeTypes)

SpecFull == Init /\ [][NextFull]_vars

(***************************************************************************)
(* The preview of the success payload taken alone: any extracted text up   *)
(* to MaxTextLen characters, and the textPreview computed from it.         *)
(***************************************************************************)
MaxTextLen == 204

\* The texts: of every length, with characters that tell positions apart.
Texts ==
  {[i \in 1..n |-> Digit[(i % 10) + 1]] : n \in 0..MaxTextLen}
    \cup {[i \in 1..n |-> "."] : n \in 1..4}

InitPreview ==
  /\ now = 0
  /\ uploads = << >>
  /\ temp = << >>
  /\ req = [r \in Reqs |-> Idle]
  /\ wlog = << >>
  /\ probe = NoReply
  /\ doc \in Texts
  /\ preview = << >>

MakePreview ==
  /\ preview = << >>
  /\ preview' = textPreview(doc)
  /\ UNCHANGED <<now, uploads, temp, req, wlog, probe, doc>>

NextPreview == MakePreview

SpecPreview == InitPreview /\ [][NextPreview]_vars

(***************************************************************************)
(* Properties.                                                             *)
(***************************************************************************)
Done(r) == req[r].pc = "done"

InFlight(r) == req[r].pc \notin {"idle", "done"}

\* The file request r stored is still in uploads/.
StoredFileExists(r) ==
  /\ req[r].stored
  /\ req[r].path \in DOMAIN uploads
  /\ uploads[req[r].path] = r

\* Request r wrote its extracted text to temp/.
Wrote(r) == req[r].artifact # NoName

AcceptedTypes == {MimePdf, MimeDocx, MimeDoc}

ValidationErrors == {FilterMessage, "File too large", "No file uploaded"}

\* The original filename without its extension, whatever its letter case.
Stem(name) == basename(name, extname(name))

\* The lower-cased extension of the name is .pdf, .docx or .doc.
SupportedName(name) ==
  LET low == toLowerCase(name)
  IN \E e \in {ExtPdf, ExtDocx, ExtDoc} : Len(low) > Len(e) /\ EndsWith(low, e)

\* The names among the inputs with a supported extension.
SupportedNames == {n \in AllNames : SupportedName(n)}

\* Position of request r in the order of artifact writes (0: it wrote none).
WriteIndex(r) ==
  IF \E i \in 1..Len(wlog) : wlog[i] = r
    THEN CHOOSE i \in 1..Len(wlog) : wlog[i] = r
    ELSE 0

\* C1 (as stated): once a request that stored a file has answered 200 or
\* 500, the file it stored no longer exists in uploads/.
C1_StoredFileGone ==
  \A r \in Reqs :
    (Done(r) /\ req[r].status \in {200, 500}) => ~StoredFileExists(r)

\* C1 (amended): a request that answers 200 or 500 has stored a file and
\* attempted its deletion; after 200 the file it stored is gone, and after
\* 500 it is gone whenever the final deletion attempt succeeded.
C1_DeletionAttempted ==
  \A r \in Reqs :
    (Done(r) /\ req[r].status \in {200, 500}) =>
      /\ req[r].stored
      /\ req[r].delAttempts >= 1
      /\ req[r].status = 200 => req[r].delOk
      /\ req[r].delOk => ~StoredFileExists(r)

C1_Witness ==
  /\ \E r \in Reqs : Done(r) /\ req[r].status = 200 /\ ~StoredFileExists(r)
  /\ \E r \in Reqs : Done(r) /\ req[r].status = 500 /\ req[r].delOk /\ ~StoredFileExists(r)

\* C2 (as stated): a request whose extraction and artifact write succeeded
\* answers 200, whether or not the deletion of its stored file succeeds.
C2_DeleteFailureNotSurfaced ==
  \A r \in Reqs : (Done(r) /\ Wrote(r)) => req[r].status = 200

\* C3 (as stated): no two requests in flight share one path in uploads/.
C3_UniqueStoredNames ==
  \A r1, r2 \in Reqs :
    (r1 # r2 /\ InFlight(r1) /\ InFlight(r2)) => req[r1].path # req[r2].path

\* C4 (as stated): a failed request has status 400 exactly when its failure
\* is a validation failure, and 500 otherwise.
C4_StatusByErrorKind ==
  \A r \in Reqs :
    (Done(r) /\ req[r].status # 200) =>
      /\ req[r].status \in {400, 500}
      /\ req[r].status = 400 <=> req[r].error \in ValidationErrors

\* C5: a request whose declared media type is not accepted, or that has no
\* file in the document field, is answered 400 at once, and it has stored no
\* file in uploads/, invoked no extractor and written nothing to temp/.
C5_RejectedLeavesNoTrace ==
  \A r \in Reqs :
    (\/ req[r].mimetype \notin AcceptedTypes \cup {""}
     \/ req[r].error = "No file uploaded") =>
      /\ Done(r)
      /\ req[r].status = 400
      /\ req[r].responses = 1
      /\ ~req[r].stored
      /\ \A p \in DOMAIN uploads : uploads[p] # r
      /\ req[r].invoked = "none"
      /\ ~Wrote(r)
      /\ WriteIndex(r) = 0

C5_Witness ==
  /\ \E r \in Reqs : req[r].mimetype = MimeText /\ req[r].status = 400
  /\ \E r \in Reqs : req[r].error = "No file uploaded" /\ req[r].status = 400

C7_ArtifactName ==
  \A r \in Reqs :
    Wrote(r) => req[r].artifact = Stem(req[r].originalname) \o ExtractedSuffix

\* C8 (as stated): a request answers 200 if and only if it wrote its
\* extracted text to temp/.
C8_NoPartialSuccess ==
  \A r \in Reqs : Done(r) => (req[r].status = 200 <=> Wrote(r))

\* The upload of request r passed validation and its callback ran the
\* dispatch.
Dispatched(r) ==
  /\ req[r].stored
  /\ req[r].pc \notin {"idle", "uploading"}
  /\ req[r].status # 400

\* C9 (as stated): no request that passed validation reaches the
\* "Unsupported file format" branch of the dispatch.
C9_UnsupportedUnreachable ==
  \A r \in Reqs : Dispatched(r) => req[r].error # "Unsupported file format"

\* C9 (amended): a request that passed validation reaches the "Unsupported
\* file format" branch exactly when the lower-cased extension of its
\* original filename is none of .pdf, .docx, .doc.
C9_UnsupportedIffExtension ==
  \A r \in Reqs :
    /\ Dispatched(r) =>
         (req[r].error = "Unsupported file format" <=> req[r].originalname \notin SupportedNames)
    /\ req[r].error = "Unsupported file format" =>
         /\ Dispatched(r)
         /\ req[r].mimetype \in AcceptedTypes
         /\ req[r].invoked = "none"

C9_Witness ==
  /\ \E r \in Reqs :
       /\ Done(r) /\ req[r].status = 500
       /\ req[r].error = "Unsupported file format"
       /\ req[r].mimetype \in AcceptedTypes
  /\ \E r \in Reqs :
       /\ Done(r) /\ req[r].status = 200
       /\ req[r].originalname = <<"r", ".", "D", "O", "C">>

\* Every artifact in temp/ holds the text of the last request that wrote
\* a file of that name.
ArtifactHoldsLastWrite ==
  \A a \in DOMAIN temp :
    \E i \in 1..Len(wlog) :
      /\ req[wlog[i]].artifact = a
      /\ temp[a] = req[wlog[i]].text
      /\ \A j \in (i + 1)..Len(wlog) : req[wlog[j]].artifact # a

\* C10 (as stated): when two requests with the same original base filename
\* both succeed, one artifact with that base name exists in temp/ and it
\* holds the text of the one that wrote last.
C10_LastWriteWins ==
  \A r1, r2 \in Reqs :
    (/\ r1 # r2
     /\ Done(r1) /\ req[r1].status = 200
     /\ Done(r2) /\ req[r2].status = 200
     /\ Stem(req[r1].originalname) = Stem(req[r2].originalname)
     /\ WriteIndex(r1) < WriteIndex(r2)) =>
      /\ req[r1].artifact = req[r2].artifact
      /\ req[r2].artifact \in DOMAIN temp
      /\ temp[req[r2].artifact] = req[r2].text

Min(a, b) == IF a <= b THEN a ELSE b

\* C11: the textPreview of a 200 response is the first min(200, length)
\* characters of the extracted text followed by "...": it is never empty
\* and never longer than 203 characters, also for the empty text.
C11_PreviewShape ==
  preview # << >> =>
    /\ Len(preview) = Min(200, Len(doc)) + 3
    /\ \A i \in 1..Min(200, Len(doc)) : preview[i] = doc[i]
    /\ \A i \in 1..3 : preview[Min(200, Len(doc)) + i] = "."
    /\ Len(preview) > 0
    /\ Len(preview) <= 203

C11_Witness ==
  /\ preview # << >>
  /\ Len(doc) > 200
  /\ Len(preview) = 203

\* C12: no step removes an artifact from temp/: the set of artifact names
\* only grows (a file may be overwritten), and every artifact a request
\* wrote is still there.
C12_ArtifactsNeverDeleted ==
  /\ [][DOMAIN temp \subseteq DOMAIN temp']_vars
  /\ [](\A r \in Reqs : Wrote(r) => req[r].artifact \in DOMAIN temp)

C12_Witness ==
  /\ Len(wlog) = 2
  /\ \A r \in Reqs : Done(r) /\ Wrote(r)
  /\ Cardinality(DOMAIN temp) = 2
  /\ uploads = << >>

\* C13: GET /test can be answered in every state, also while uploads are in
\* flight; its answer is 200 with a body that has a "status" field; and the
\* step that answers leaves uploads/ and temp/ as they were.
C13_TestAnswers ==
  /\ [](ENABLED Test)
  /\ [](probe # NoReply => probe.code = 200 /\ "status" \in probe.fields)
  /\ [][probe' # probe => uploads' = uploads /\ temp' = temp /\ req' = req]_vars

C13_Witness ==
  /\ probe.code = 200
  /\ \E r \in Reqs : InFlight(r) /\ StoredFileExists(r)
  /\ temp # << >>

\* The errors of a processing failure after the file was stored: the
\* dispatch throws, the extractor fails (on reading the file or on its
\* content), or the artifact cannot be written.
ProcessingErrors == {"Unsupported file format", "ENOENT", "extract", "write"}

\* C14: a request whose processing failed after its file was stored has
\* called deleteFile before its 500 response is sent (while the deletion is
\* pending no response has been sent), and when the deletion settles,
\* resolved or rejected, the request answers 500.
C14_CleanupBefore500 ==
  /\ [](\A r \in Reqs :
          req[r].error \in ProcessingErrors =>
            /\ req[r].stored
            /\ req[r].delAttempts >= 1
            /\ \/ req[r].pc = "cleanup" /\ req[r].responses = 0 /\ req[r].status = 0
               \/ Done(r) /\ req[r].responses = 1 /\ req[r].status = 500)
  /\ [][\A r \in Reqs :
          (req[r].pc = "cleanup" /\ req'[r] # req[r]) =>
            req'[r].pc = "done" /\ req'[r].status = 500]_vars

C14_Witness ==
  /\ \E r \in Reqs : /\ Done(r) /\ req[r].status = 500 /\ req[r].delOk
                      /\ req[r].error \in ProcessingErrors
  /\ \E r \in Reqs : /\ Done(r) /\ req[r].status = 500 /\ ~req[r].delOk
                      /\ req[r].error \in ProcessingErrors /\ StoredFileExists(r)

C16_DeleteAtMostOnce ==
  \A r \in Reqs : req[r].delAttempts <= 1

\* C17 (as stated): a request reads, for extraction, only the file that it
\* stored itself: the content it reads and the text it extracts are those
\* of its own upload.
C17_ReadsOwnFileOnly ==
  \A r \in Reqs :
    /\ req[r].buf \in {0, r}
    /\ req[r].text \in {0, r}

\* The name, lower-cased, ends with the extension e after at least one
\* other character.
HasExtension(name, e) ==
  LET low == toLowerCase(name)
  IN Len(low) > Len(e) /\ EndsWith(low, e)

PdfNames == {n \in AllNames : HasExtension(n, ExtPdf)}

WordNames == {n \in AllNames : HasExtension(n, ExtDocx) \/ HasExtension(n, ExtDoc)}

\* C18 (as stated, its part on the stored file): a request whose extension
\* is not supported is answered 500 and its stored file is deleted.
C18_UnsupportedFileDeleted ==
  \A r \in Reqs :
    (Done(r) /\ req[r].error = "Unsupported file format") =>
      req[r].status = 500 /\ ~StoredFileExists(r)

\* C18 (amended): the extractor is chosen by the lower-cased extension of
\* the original filename alone, for every declared media type: the PDF
\* extractor exactly for .pdf, the Word extractor exactly for .docx and
\* .doc; for any other extension no extractor is invoked, no artifact is
\* written, the deletion of the stored file is attempted once (the file is
\* gone when that attempt succeeds) and the answer is 500 with the message
\* "Unsupported file format".
C18_DispatchByExtension ==
  \A r \in Reqs :
    Dispatched(r) =>
      /\ req[r].invoked = "pdf" <=> req[r].originalname \in PdfNames
      /\ req[r].invoked = "word" <=> req[r].originalname \in WordNames
      /\ req[r].originalname \notin PdfNames \cup WordNames =>
            /\ req[r].invoked = "none"
            /\ req[r].text = 0
            /\ ~Wrote(r)
            /\ req[r].error = "Unsupported file format"
            /\ req[r].delAttempts = 1
            /\ Done(r) => /\ req[r].status = 500
                          /\ req[r].delOk => ~StoredFileExists(r)

C18_Witness ==
  /\ \E r \in Reqs :
       /\ Done(r) /\ req[r].status = 500 /\ req[r].delOk
       /\ req[r].originalname = <<"r", ".", "t", "x", "t">>
       /\ req[r].mimetype = MimePdf
  /\ \E r \in Reqs :
       /\ req[r].invoked = "word" /\ req[r].text # 0
       /\ req[r].originalname = <<"r", ".", "D", "O", "C">>
       /\ req[r].mimetype = MimePdf

\* C19 (as stated): when a request answers 200, the file at the returned
\* extractedTextPath holds, at that moment, the text the request extracted.
C19_FileHoldsOwnText ==
  \A r \in Reqs : req[r].status = 200 => req[r].seen = req[r].text

\* C19 (amended): when a request answers 200, the file at the returned
\* extractedTextPath exists at that moment and holds the request's own
\* text, or the text of a request that wrote the same path after it.
C19_FileHoldsLastWriter ==
  \A r \in Reqs :
    req[r].status = 200 =>
      /\ req[r].seen # 0
      /\ \/ req[r].seen = req[r].text
         \/ \E o \in Reqs \ {r} :
              /\ req[o].artifact = req[r].artifact
              /\ WriteIndex(o) > WriteIndex(r)
              /\ req[o].text = req[r].seen

C19_Witness ==
  /\ \E r \in Reqs : req[r].status = 200 /\ req[r].seen # req[r].text
  /\ \E r \in Reqs : req[r].status = 200 /\ req[r].seen = req[r].text

\* C20: every request that was received eventually has its response, and
\* exactly one: a request in flight has sent none, a finished request has
\* sent one, with status 200, 400 or 500; this includes the request whose
\* deletion failed after its artifact was written.
C20_ExactlyOneResponse ==
  /\ [](\A r \in Reqs :
          /\ req[r].responses <= 1
          /\ Done(r) <=> req[r].responses = 1
          /\ Done(r) => req[r].status \in {200, 400, 500}
          /\ ~Done(r) => req[r].status = 0)
  /\ \A r \in Reqs : InFlight(r) ~> Done(r)

C20_Witness ==
  /\ \E r \in Reqs : /\ Done(r) /\ req[r].responses = 1 /\ req[r].status = 500
                      /\ Wrote(r) /\ req[r].delAttempts = 2 /\ ~req[r].delOk
  /\ \E r \in Reqs : Done(r) /\ req[r].responses = 1 /\ req[r].status = 400
====
